---- MODULE Spec2Model ----
(***************************************************************************)
(* Job orchestration of the media downloader bot: the Redis-backed         *)
(* activity leases, session and cache stores, the extraction task          *)
(* get_media_info, the download tasks, and the callback handlers that      *)
(* admit and submit downloads.                                             *)
(*                                                                         *)
(* Granularity.  Every Redis command (GET, SETEX, DEL) and every job       *)
(* submission is one atomic step: the workers and the bot are separate     *)
(* processes sharing one Redis, so their commands interleave freely.  The  *)
(* calls that follow a command and touch no shared state (chat transport,  *)
(* extractor, downloader) belong to the command's step; their outcome is   *)
(* drawn from the results such calls can have: they return, or one of them *)
(* raises.  Each job keeps a log of the calls it issued, in the order the  *)
(* code issues them.                                                       *)
(*                                                                         *)
(* The time-to-live of a lease is modelled by an expiry step that may      *)
(* remove the key any time after it was written.                           *)
(***************************************************************************)
EXTENDS Integers, Sequences, FiniteSets, Bags, TLC

\* ------------------------------------------------------------------ bounds
MaxJobs == 2        \* Celery jobs queued or running at the same time

Chats == {"c1"}
\* a second user, who only sends URLs
OtherChats == {"c2"}
AllChats == Chats \cup OtherChats
Urls == {"yt", "ig"}
Medias == {"m1", "m2", "m3"}

\* the platform classification of a URL (DomainMatcher, out of scope): fixed per URL
ServiceOf(u) ==
    CASE u = "yt" -> "youtube"
      [] u = "rd" -> "reddit"
      [] u = "rt" -> "rutube"
      [] u = "tt" -> "tiktok"
      [] OTHER -> "instagram"

\* the results the extractor can produce for a URL: the same URL extracted
\* twice gives two results (fresh uuid4 ids, possibly other renditions)
Results(u) == IF u = "yt" THEN {"m1", "m2"} ELSE {"m3"}

\* rendition ids carried by a media result (uuid4 per extraction: disjoint)
VideoIds(m) == {"v" \o m}
AudioIds(m) == IF m = "m1" THEN {"a" \o m} ELSE {}
ThumbnailIds(m) == {"t" \o m}
Ids(k, m) ==
    CASE k = "video" -> VideoIds(m)
      [] k = "audio" -> AudioIds(m)
      [] k = "thumbnail" -> ThumbnailIds(m)
      [] OTHER -> {"image"}       \* the gallery button carries no rendition id

\* the id of a button left over from an offer whose session is gone
OldId(k) ==
    CASE k = "video" -> "v0" [] k = "audio" -> "a0" [] k = "thumbnail" -> "t0"
      [] OTHER -> "image"

\* an absent Redis value / a present one
None == <<>>
Some(v) == <<v>>
Val(o) == o[1]

\* an exception on its way to the caller
Raised == "raised"

\* ------------------------------------------------------------------ state
VARIABLES
    extractLease,   \* user_extract:{chat_id}   -> None | Some([url, service])
    downloadLease,  \* user_download:{chat_id}  -> None | Some([url, service])
    session,        \* user_session:{chat_id}   -> None | Some([url, service, media_data])
    cache,          \* media_cache:{md5(url)}   -> None | Some([url, data])
    jobs,           \* the bag of Celery jobs queued in a lane or running on a worker
    cb,             \* the callback handler the bot's event loop is running
    igAwait,        \* chats whose handle_video awaits answer_video (instagram)
    offered,        \* per chat, the media results whose choice offer was delivered
    last            \* what the last step ended: a job (as it ended), a handler, or nothing

vars == <<extractLease, downloadLease, session, cache, jobs, cb, igAwait, offered, last>>

stores == <<extractLease, downloadLease, session, cache>>

\* ------------------------------------------------------------------ Redis
RedisGet(store, key) == store[key]
RedisSetex(store, key, value) == [store EXCEPT ![key] = Some(value)]
\* a deletion that takes every key of the database with it
RedisFlush(store, key) == [k \in DOMAIN store |-> None]
RedisDelete(store, key) == [store EXCEPT ![key] = None]

\* `if data:` / `if user_activity_queue.get_extract(...)`: a stored JSON
\* string and the dict decoded from it are both non-empty, hence truthy
Truthy(data) == data # None

LeaseData(u, s) == [url |-> u, service |-> s]
SessionData(u, s, m) == [url |-> u, service |-> s, media_data |-> m]
CacheData(u, m) == [url |-> u, data |-> m]

\* ------------------------------------------------------------------ jobs
Live == BagToSet(jobs)

NewJob(k, c, u, s) ==
    [kind |-> k, chat |-> c, url |-> u, service |-> s,
     pc |-> "queued", tmp |-> None, log |-> <<>>, lost |-> FALSE]

\* nothing ended in the last step
Nothing == [NewJob("none", "none", "none", "none") EXCEPT !.pc = "none"]

\* a callback handler ended in the last step, for chat c, with outcome p
Answer(c, p) == [NewJob("callback", c, "none", "none") EXCEPT !.pc = p]

Moved(r, p, t, ev) == [r EXCEPT !.pc = p, !.tmp = t, !.log = r.log \o ev]

Has(r, e) == \E i \in 1..Len(r.log) : r.log[i] = e

\* job r goes on at pc p, having issued the calls ev, holding t
Step(r, p, t, ev) ==
    /\ jobs' = (jobs (-) SetToBag({r})) (+) SetToBag({Moved(r, p, t, ev)})
    /\ last' = Nothing

\* the task function of job r returned, in state p
Return(r, p, ev) ==
    /\ jobs' = jobs (-) SetToBag({r})
    /\ last' = Moved(r, p, None, ev)

\* the task function of job r ended with an exception
Crash(r, ev) == Return(r, "crashed", ev \o <<"raise">>)

\* a download lease of chat c left the store: the download jobs in flight
\* for c have lost theirs
LeaseLost(c, bag) ==
    BagOfAll(LAMBDA r : IF r.chat = c /\ r.kind # "extract"
                        THEN [r EXCEPT !.lost = TRUE] ELSE r, bag)

IsExtract(r, p) == r \in Live /\ r.kind = "extract" /\ r.pc = p
IsDownload(r, p) == r \in Live /\ r.kind # "extract" /\ r.pc = p

\* the two calls in the other order: the final message, then the deletion
SendThenDelete(o, final) ==
    CASE o = "ok" -> <<final, "delete">>
      [] o = "raise_before" -> <<>>
      [] o = "raise_delete" -> <<final, "delete_failed">>
      [] o = "raise_send" -> <<"send_failed">>

\* the calls that end a job's conversation: delete_message(placeholder), then
\* the final message; o says how far they got
DeleteThenSend(o, final) ==
    CASE o = "ok" -> <<"delete", final>>
      [] o = "raise_before" -> <<>>
      [] o = "raise_delete" -> <<"delete", "delete_failed">>
      [] o = "raise_send" -> <<"delete", "send_failed">>

DeliveryOutcomes == {"ok", "raise_before", "raise_delete", "raise_send"}

\* --------------------------------------------------- the user sends a URL
\* TelegramBot._handle_url_message -> ServiceHandler.handle_<service>:
\* get_media_info.delay(...), nothing else
SendUrl(c, u) ==
    /\ cb.pc = "idle"
    /\ BagCardinality(jobs) < MaxJobs
    /\ jobs' = jobs (+) SetToBag({NewJob("extract", c, u, ServiceOf(u))})
    /\ last' = Nothing
    /\ UNCHANGED <<stores, cb, igAwait, offered>>

\* --------------------------------------------------- get_media_info
\* an admission that does not look at the lease: every job is let through
GmiGetExtractBlind(r) ==
    /\ IsExtract(r, "queued")
    /\ Step(r, "create", None, <<>>)
    /\ UNCHANGED <<stores, cb, igAwait, offered>>

\* line 204, get_extract: redis GET
GmiGetExtract(r) ==
    /\ IsExtract(r, "queued")
    /\ LET data == RedisGet(extractLease, r.chat) IN
         IF Truthy(data)
         THEN Step(r, "busy_refresh", data, <<>>)
         ELSE Step(r, "create", None, <<>>)
    /\ UNCHANGED <<stores, cb, igAwait, offered>>

\* get_extract on a hit: SETEX of the value read; then lines 205-213, the
\* "already extracting" notice, and return
GmiBusy(r) ==
    /\ IsExtract(r, "busy_refresh")
    /\ extractLease' = RedisSetex(extractLease, r.chat, Val(r.tmp))
    /\ \/ Return(r, "rejected", <<"busy">>)
       \/ Crash(r, <<>>)
    /\ UNCHANGED <<downloadLease, session, cache, cb, igAwait, offered>>

\* line 215, create_extract: SETEX; then lines 217-240: the acknowledgement
\* is sent and deleted, the placeholder is sent
GmiCreateExtract(r) ==
    /\ IsExtract(r, "create")
    /\ extractLease' = RedisSetex(extractLease, r.chat, LeaseData(r.url, r.service))
    /\ \/ Step(r, "cache_get", None, <<"lease", "placeholder">>)
       \/ Crash(r, <<"lease">>)
       \/ Crash(r, <<"lease", "placeholder">>)
    /\ UNCHANGED <<downloadLease, session, cache, cb, igAwait, offered>>

\* _handle_error_response lines 358-374: downloader for the description,
\* typing action, delete_message(placeholder), send_message(failure)
HandleErrorResponse(r, ev) ==
    \E o \in DeliveryOutcomes :
        IF o = "ok"
        THEN Step(r, "release", None, ev \o DeleteThenSend(o, "failure"))
        ELSE Crash(r, ev \o DeleteThenSend(o, "failure"))

\* a job that records the session before it looks at the status of the result
GmiGetMediaSessionFirst(r) ==
    /\ IsExtract(r, "cache_get")
    /\ LET data == RedisGet(cache, r.url) IN
         IF Truthy(data)
         THEN Step(r, "cache_refresh", data, <<>>) /\ session' = session
         ELSE \/ /\ \E m \in Results(r.url) :
                      Step(r, "hs_session", Some(m), <<"extract", "result_success">>)
                 /\ session' = session
              \/ /\ HandleErrorResponse(r, <<"extract", "result_error">>)
                 /\ session' = RedisSetex(session, r.chat, SessionData(r.url, r.service, "none"))
              \/ Crash(r, <<"extract">>) /\ session' = session
    /\ UNCHANGED <<extractLease, downloadLease, cache, cb, igAwait, offered>>

\* line 241, get_media: redis GET.  On a miss lines 249-250,
\* get_service_downloader(...).extract_info(url).to_dict(): a result with
\* status success or error, or a raise; status error: lines 261-267
GmiGetMedia(r) ==
    /\ IsExtract(r, "cache_get")
    /\ LET data == RedisGet(cache, r.url) IN
         IF Truthy(data)
         THEN Step(r, "cache_refresh", data, <<>>)
         ELSE \/ \E m \in Results(r.url) : Step(r, "hs_session", Some(m), <<"extract", "result_success">>)
              \/ HandleErrorResponse(r, <<"extract", "result_error">>)
              \/ Crash(r, <<"extract">>)
    /\ UNCHANGED <<stores, cb, igAwait, offered>>

\* a job that calls the extractor although the cache answered
GmiCacheHitReextract(r) ==
    /\ IsExtract(r, "cache_refresh")
    /\ cache' = RedisSetex(cache, r.url, Val(r.tmp))
    /\ \E m \in Results(r.url) : Step(r, "hs_session", Some(m), <<"extract", "result_success">>)
    /\ UNCHANGED <<extractLease, downloadLease, session, cb, igAwait, offered>>

\* get_media on a hit: SETEX of the value read; lines 242-247
GmiCacheHit(r) ==
    /\ IsExtract(r, "cache_refresh")
    /\ cache' = RedisSetex(cache, r.url, Val(r.tmp))
    /\ Step(r, "hs_session", Some(Val(r.tmp).data), <<"result_success">>)
    /\ UNCHANGED <<extractLease, downloadLease, session, cb, igAwait, offered>>

\* a job that records some result of its url, not the one it goes on with
HsCreateSessionOther(r) ==
    /\ IsExtract(r, "hs_session")
    /\ \E m \in Results(r.url) :
          session' = RedisSetex(session, r.chat, SessionData(r.url, r.service, m))
    /\ Step(r, "hs_cache", r.tmp, <<>>)
    /\ UNCHANGED <<extractLease, downloadLease, cache, cb, igAwait, offered>>

\* _handle_success_response lines 283-288, create_session: SETEX
HsCreateSession(r) ==
    /\ IsExtract(r, "hs_session")
    /\ session' = RedisSetex(session, r.chat, SessionData(r.url, r.service, Val(r.tmp)))
    /\ Step(r, "hs_cache", r.tmp, <<>>)
    /\ UNCHANGED <<extractLease, downloadLease, cache, cb, igAwait, offered>>

\* _handle_success_response lines 290-293, store_media: SETEX; then lines
\* 295-348: buttons, upload_photo action, delete_message(placeholder),
\* send_photo(choices)
HsStoreMedia(r) ==
    /\ IsExtract(r, "hs_cache")
    /\ cache' = RedisSetex(cache, r.url, CacheData(r.url, Val(r.tmp)))
    /\ \E o \in DeliveryOutcomes :
         IF o = "ok"
         THEN /\ Step(r, "release", None, DeleteThenSend(o, "offer"))
              /\ offered' = [offered EXCEPT ![r.chat] = @ \cup {Val(r.tmp)}]
         ELSE /\ Crash(r, DeleteThenSend(o, "offer"))
              /\ offered' = offered
    /\ UNCHANGED <<extractLease, downloadLease, session, cb, igAwait>>

\* line 269, delete_extract: DEL; the task function returns
GmiDeleteExtract(r) ==
    /\ IsExtract(r, "release")
    /\ extractLease' = RedisDelete(extractLease, r.chat)
    /\ Return(r, IF Has(r, "offer") THEN "delivered" ELSE "failed", <<"release">>)
    /\ UNCHANGED <<downloadLease, session, cache, cb, igAwait, offered>>

\* --------------------------------------------------- callback handlers
\* The bot is one asyncio event loop: a handler runs without interruption by
\* other handlers from one await to the next, but the workers' Redis commands
\* interleave with its own.  cb is the handler inside such a section.

\* the buttons chat c holds: one per rendition of each offer delivered to it,
\* and one older than all of them
Buttons(c, k) == {OldId(k)} \cup UNION {Ids(k, m) : m \in offered[c]}
Idle == [pc |-> "idle", chat |-> "none", kind |-> "none", id |-> "none", tmp |-> None]

CbGoto(p, t) ==
    /\ cb' = [cb EXCEPT !.pc = p, !.tmp = t]
    /\ last' = Nothing

\* the handler returned or raised: outcome p
CbEnd(p) ==
    /\ cb' = Idle
    /\ last' = Answer(cb.chat, p)

\* a video or audio button is pressed; handle_video line 12 / handle_audio
\* line 128, get_download: redis GET
CbGetDownload(c, k, id) ==
    /\ cb.pc = "idle"
    /\ BagCardinality(jobs) < MaxJobs
    /\ LET data == RedisGet(downloadLease, c) IN
         cb' = [pc |-> IF Truthy(data) THEN "busy_refresh" ELSE "session_get",
                chat |-> c, kind |-> k, id |-> id, tmp |-> data]
    /\ last' = Nothing
    /\ UNCHANGED <<stores, jobs, igAwait, offered>>

\* get_download on a hit: SETEX of the value read; then the "already
\* downloading" answer (lines 13-17, 129-133)
CbBusy ==
    /\ cb.pc = "busy_refresh"
    /\ downloadLease' = RedisSetex(downloadLease, cb.chat, Val(cb.tmp))
    /\ CbEnd("busy")
    /\ UNCHANGED <<extractLease, session, cache, jobs, igAwait, offered>>

\* a handler without the "session is None" branch: subscripting None raises
CbGetSessionUnchecked ==
    /\ cb.pc = "session_get"
    /\ LET data == RedisGet(session, cb.chat) IN
         IF Truthy(data) THEN CbGoto("session_refresh", data) ELSE CbEnd("raised")
    /\ UNCHANGED <<stores, jobs, igAwait, offered>>

\* handle_video line 26 / handle_audio line 135, get_session: redis GET;
\* absent: the "session expired" answer
CbGetSession ==
    /\ cb.pc = "session_get"
    /\ LET data == RedisGet(session, cb.chat) IN
         IF Truthy(data) THEN CbGoto("session_refresh", data) ELSE CbEnd("expired")
    /\ UNCHANGED <<stores, jobs, igAwait, offered>>

\* a thumbnail or gallery button is pressed; handle_thumbnail line 175 /
\* handle_image line 86, get_session: redis GET; absent: the "session
\* expired" answer.  These handlers use no lease.
CbPreview(c, k, id) ==
    /\ cb.pc = "idle"
    /\ LET data == RedisGet(session, c) IN
         IF Truthy(data)
         THEN /\ cb' = [pc |-> "session_refresh", chat |-> c, kind |-> k, id |-> id,
                        tmp |-> data]
              /\ last' = Nothing
         ELSE /\ cb' = Idle
              /\ last' = Answer(c, "expired")
    /\ UNCHANGED <<stores, jobs, igAwait, offered>>

\* get_session on a hit: SETEX of the value read.  handle_video then looks
\* the rendition up (lines 34-35: [...][0] raises IndexError when absent);
\* handle_audio looks it up only after create_download; handle_thumbnail
\* looks it up (line 184) and sends the photo, handle_image sends the gallery
CbRefreshSession ==
    /\ cb.pc = "session_refresh"
    /\ session' = RedisSetex(session, cb.chat, Val(cb.tmp))
    /\ CASE cb.kind \in {"video", "thumbnail"}
              /\ cb.id \notin Ids(cb.kind, Val(cb.tmp).media_data) ->
                CbEnd("raised")
         [] cb.kind \in {"thumbnail", "image"}
              /\ cb.id \in Ids(cb.kind, Val(cb.tmp).media_data) ->
                CbEnd("sent") \/ CbEnd("send_raised")
         [] OTHER -> CbGoto("create", cb.tmp)
    /\ UNCHANGED <<extractLease, downloadLease, cache, jobs, igAwait, offered>>

\* a handler that goes on to the submission without writing the lease
CbSubmitUnleased ==
    /\ cb.pc = "create"
    /\ CbGoto("submit", cb.tmp)
    /\ UNCHANGED <<stores, jobs, igAwait, offered>>

\* handle_video lines 43-59 / handle_audio lines 143-151, create_download:
\* SETEX.  instagram video: await answer_video.  audio: the lookup follows.
CbCreateDownload ==
    /\ cb.pc = "create"
    /\ LET s == Val(cb.tmp) IN
       /\ downloadLease' = RedisSetex(downloadLease, cb.chat, LeaseData(s.url, s.service))
       /\ CASE cb.kind = "video" /\ s.service = "instagram" ->
                 /\ igAwait' = igAwait \cup {cb.chat}
                 /\ CbEnd("awaiting")
            [] cb.kind = "audio" /\ cb.id \notin Ids("audio", s.media_data) ->
                 /\ igAwait' = igAwait
                 /\ CbEnd("raised")
            [] OTHER ->
                 /\ igAwait' = igAwait
                 /\ CbGoto("submit", cb.tmp)
    /\ UNCHANGED <<extractLease, session, cache, jobs, offered>>

\* handle_video lines 63-79 (task_map[service].delay) / handle_audio lines
\* 152-169 (download_audio.delay)
CbSubmit ==
    /\ cb.pc = "submit"
    /\ LET s == Val(cb.tmp) IN
         jobs' = jobs (+) SetToBag({NewJob(cb.kind, cb.chat, s.url, s.service)})
    /\ CbEnd("submitted")
    /\ UNCHANGED <<stores, igAwait, offered>>

\* handle_video lines 51-59: answer_video returned, delete_download (DEL);
\* or answer_video raised
IgAnswered(c) ==
    /\ c \in igAwait
    /\ cb.pc = "idle"
    /\ igAwait' = igAwait \ {c}
    /\ \/ /\ downloadLease' = RedisDelete(downloadLease, c)
          /\ jobs' = LeaseLost(c, jobs)
          /\ last' = Answer(c, "sent")
       \/ /\ UNCHANGED <<downloadLease, jobs>>
          /\ last' = Answer(c, "raised")
    /\ UNCHANGED <<extractLease, session, cache, cb, offered>>

\* a result handler that goes on to the release whatever the sends did
HandleDownloadResultThenRelease(r, ev, status) ==
    LET final == IF status = "success" THEN "media" ELSE "failure" IN
    \E o \in DeliveryOutcomes \ {"raise_before"} :
        Step(r, "release", None, ev \o DeleteThenSend(o, final))

\* --------------------------------------------------- download tasks
\* _handle_download_result lines 43-72: delete_message(placeholder); on
\* success the upload action, send_video / send_audio and the confirmation
\* text; otherwise the failure text
HandleDownloadResult(r, ev, status) ==
    LET final == IF status = "success" THEN "media" ELSE "failure" IN
    \/ \E o \in DeliveryOutcomes \ {"raise_before"} :
         IF o = "ok"
         THEN Step(r, "release", None, ev \o DeleteThenSend(o, final))
         ELSE Crash(r, ev \o DeleteThenSend(o, final))
    \/ /\ status = "success"
       /\ Crash(r, ev \o DeleteThenSend("ok", final) \o <<"confirm_failed">>)

\* download_<service>_video / download_audio: _notify_user_start
\* (send_message(placeholder)), the downloader call (a result with status
\* success or error, or a raise), _handle_download_result
DownloadTask(r) ==
    /\ IsDownload(r, "queued")
    /\ \/ Crash(r, <<>>)
       \/ Crash(r, <<"placeholder", "download">>)
       \/ \E status \in {"success", "error"} :
            HandleDownloadResult(r, <<"placeholder", "download", "result_" \o status>>, status)
    /\ UNCHANGED <<stores, cb, igAwait, offered>>

\* _handle_download_result line 75, delete_download: DEL; the task returns
DlDeleteDownload(r) ==
    /\ IsDownload(r, "release")
    /\ downloadLease' = RedisDelete(downloadLease, r.chat)
    /\ jobs' = LeaseLost(r.chat, jobs (-) SetToBag({r}))
    /\ last' = Moved(r, IF Has(r, "media") THEN "delivered" ELSE "failed", None, <<"release">>)
    /\ UNCHANGED <<extractLease, session, cache, cb, igAwait, offered>>

\* --------------------------------------------------- time to live
\* user_activity_queue.py, setex(time=self.ttl): Redis removes a lease once
\* the ttl has passed since its last write
ExpireExtract(c) ==
    /\ Truthy(extractLease[c])
    /\ extractLease' = RedisDelete(extractLease, c)
    /\ last' = Nothing
    /\ UNCHANGED <<downloadLease, session, cache, jobs, cb, igAwait, offered>>

ExpireDownload(c) ==
    /\ Truthy(downloadLease[c])
    /\ downloadLease' = RedisDelete(downloadLease, c)
    /\ jobs' = LeaseLost(c, jobs)
    /\ last' = Nothing
    /\ UNCHANGED <<extractLease, session, cache, cb, igAwait, offered>>

Init ==
    /\ extractLease = [c \in AllChats |-> None]
    /\ downloadLease = [c \in AllChats |-> None]
    /\ session = [c \in AllChats |-> None]
    /\ cache = [u \in Urls |-> None]
    /\ jobs = EmptyBag
    /\ cb = Idle
    /\ igAwait = {}
    /\ offered = [c \in AllChats |-> {}]
    /\ last = Nothing

Next ==
    \/ \E c \in Chats, u \in Urls : SendUrl(c, u)
    \/ \E r \in Live : GmiGetExtract(r)
    \/ \E r \in Live : GmiBusy(r)
    \/ \E r \in Live : GmiCreateExtract(r)
    \/ \E r \in Live : GmiGetMedia(r)
    \/ \E r \in Live : GmiCacheHit(r)
    \/ \E r \in Live : HsCreateSession(r)
    \/ \E r \in Live : HsStoreMedia(r)
    \/ \E r \in Live : GmiDeleteExtract(r)
    \/ \E c \in Chats, k \in {"video", "audio"} : \E id \in Buttons(c, k) : CbGetDownload(c, k, id)
    \/ CbBusy
    \/ CbGetSession
    \/ CbRefreshSession
    \/ CbCreateDownload
    \/ CbSubmit
    \/ \E c \in Chats : IgAnswered(c)
    \/ \E r \in Live : DownloadTask(r)
    \/ \E r \in Live : DlDeleteDownload(r)
    \/ \E c \in Chats : ExpireExtract(c)
    \/ \E c \in Chats : ExpireDownload(c)

Spec == Init /\ [][Next]_vars

\* ------------------------------------------------------------------ claims
\* the number of live jobs that satisfy Test
CountLive(Test(_)) ==
    LET s == {r \in Live : Test(r)} IN
    IF s = {} THEN 0 ELSE BagCardinality([r \in s |-> jobs[r]])

\* get_media_info between line 204 (get_extract returned absent) and line
\* 269 (delete_extract)
PastAdmission(r) ==
    /\ r.kind = "extract"
    /\ r.pc \in {"create", "cache_get", "cache_refresh", "hs_session", "hs_cache", "release"}

\* this step is the admission of job r: its get_extract returned absent
Admits(r) ==
    /\ IsExtract(r, "queued")
    /\ jobs' = (jobs (-) SetToBag({r})) (+) SetToBag({Moved(r, "create", None, <<>>)})

\* C1 as stated: for every chat at most one extraction job is past the
\* admission check and not yet finished.
C1_SingleExtraction ==
    \A c \in Chats : CountLive(LAMBDA r : PastAdmission(r) /\ r.chat = c) <= 1

\* C1 as the code has it: an extraction job passes the admission check only
\* in a step where the store holds no extract lease for its chat.  (Check and
\* lease write are two store operations, so jobs whose checks all precede the
\* first write are all admitted.)
C1_AdmittedOnlyWhenAbsent ==
    [][\A r \in Live : Admits(r) => ~Truthy(extractLease[r.chat])]_vars

\* two jobs of one chat are past admission, one of them with its lease
\* write still ahead
C1_Witness ==
    \E c \in Chats :
        /\ CountLive(LAMBDA r : PastAdmission(r) /\ r.chat = c) = 2
        /\ \E r \in Live : IsExtract(r, "create") /\ r.chat = c

\* the job or handler that ended in the last step
JobEnded == last.kind \in {"extract", "video", "audio"}
Released(k) == JobEnded /\ (last.kind = "extract") = (k = "extract") /\ Has(last, "release")

\* C2: a press made while a download job of the chat is in flight is
\* rejected and creates no lease: when it is answered right after the job
\* released the lease, the store holds no download lease for the chat.
C2_RejectedPressCreatesNoLease ==
    [][(CbBusy /\ Released("download") /\ last.chat = cb.chat)
         => ~Truthy(downloadLease'[cb.chat])]_vars

\* C3: once an extraction job has released the extract lease, the next
\* admission attempt for the chat is granted: the lease comes back only by
\* the create_extract of an admitted job, never by a refused attempt.
C3_GrantedAfterRelease ==
    [][\A c \in Chats :
         (Released("extract") /\ last.chat = c /\ Truthy(extractLease'[c]))
           => \E r \in Live : r.chat = c /\ GmiCreateExtract(r)]_vars

\* C4: a job whose extractor or downloader returned a result with status
\* error has sent the failure message and then deleted its lease when it ends.
C4_ErrorResultReleases ==
    (JobEnded /\ Has(last, "result_error"))
      => (Has(last, "failure") /\ Has(last, "release"))

\* C5: no task function ends with an exception: whatever a collaborator
\* does, the job ends on the failure path with its lease released.
C5_NoExceptionEscapes ==
    JobEnded => (last.pc # "crashed" /\ ~Has(last, "raise"))

\* C6: over a download job's whole execution exactly one of the two final
\* deliveries happens: the media file is sent, or the failure message is.
C6_ExactlyOneDelivery ==
    (JobEnded /\ last.kind # "extract")
      => (Has(last, "media") # Has(last, "failure"))

\* the final messages of a job, sent or attempted
Finals == {"offer", "media", "failure", "send_failed"}

DeletedBeforeFinal(r) ==
    \A i \in 1..Len(r.log) :
        r.log[i] \in Finals => \E j \in 1..(i - 1) : r.log[j] \in {"delete", "delete_failed"}

C8_DeliveryDespiteFailedDeletion ==
    (JobEnded /\ Has(last, "delete_failed"))
      => (Has(last, "release") /\ \E e \in {"offer", "media", "failure"} : Has(last, e))

\* C9: every submitted job ends in exactly one of the terminal states
\* delivered and failed.
C9_DeliveredOrFailed ==
    JobEnded => last.pc \in {"delivered", "failed"}

SubmitsDownload ==
    \E r \in BagToSet(jobs') :
        /\ r.kind # "extract"
        /\ r.pc = "queued" /\ ~r.lost
        /\ CopiesIn(r, jobs') > CopiesIn(r, jobs)

ExtractionEnded(c) == JobEnded /\ last.kind = "extract" /\ last.chat = c /\ Has(last, "lease")

\* C11: an extraction request sent while an earlier extraction of the chat
\* is in flight is refused, not queued: a job that waited in the lane while
\* another job of its chat ran is not admitted when that job has ended.
C11_NoQueueingOfRejectedWork ==
    [][\A r \in Live : ExtractionEnded(r.chat) => ~Admits(r)]_vars

\* ------------------------------------------------------ the stores in time
\* The store classes on their own, with the time to live of every entry
\* counted in ticks.  The callers are the bot and the workers, which call the
\* methods in any order; cb is the get_* call that has read its key and has
\* not yet written the refreshed entry; last is the result of the call that
\* returned in the last step.  An entry is [data, ttl, age]: the JSON string
\* stored, the ticks it has left, and the ticks since a create/store wrote it.
LeaseTtl == 2       \* UserActivityQueue(ttl=7200), in ticks
SessionTtl == 2     \* UserSessionStorage(ttl=7200), in ticks
CacheTtl == 3       \* MediaCacheStorage(ttl=86400), in ticks

StoreNames == {"extract", "download", "session", "cache"}
LeaseStores == {"extract", "download"}

\* self.ttl of the store class
Ttl(n) == CASE n = "session" -> SessionTtl [] n = "cache" -> CacheTtl [] OTHER -> LeaseTtl

MaxAge == CacheTtl + 2

\* the keys used: user_extract:{chat_id}, user_download:{chat_id},
\* user_session:{chat_id}, media_cache:{md5(url)}
TtlKeys(n) == IF n = "cache" THEN {"yt"} ELSE Chats

\* the values the callers store
Payloads(n) ==
    CASE n = "session" -> {SessionData("yt", "youtube", m) : m \in Results("yt")}
      [] n = "cache" -> {CacheData("yt", m) : m \in Results("yt")}
      [] OTHER -> {LeaseData(u, ServiceOf(u)) : u \in Urls}

\* an encoder that keeps the member names and loses the values
SerializeLossy(data) == {<<f, "null">> : f \in DOMAIN data}

\* RedisBase._serialize: json.dumps(data, ensure_ascii=False, default=str);
\* the values stored are dicts of strings, booleans, integers, None and lists
\* of such dicts, which JSON encodes as they are
\* of such dicts, which JSON encodes as they are: a JSON object is the set of
\* its members, name and value
Serialize(data) == {<<f, data[f]>> : f \in DOMAIN data}

\* json.loads of a JSON object: the dict of its members
JsonLoads(text) ==
    [f \in {p[1] : p \in text} |-> (CHOOSE p \in text : p[1] = f)[2]]

\* RedisBase._deserialize: json.loads(data) if data else None
Deserialize(data) == IF data = None THEN None ELSE Some(JsonLoads(Val(data)))

StoreOf(n) ==
    CASE n = "extract" -> extractLease
      [] n = "download" -> downloadLease
      [] n = "session" -> session
      [] OTHER -> cache

\* store n becomes f, the other stores stay
StoreBecomes(n, f) ==
    /\ extractLease' = IF n = "extract" THEN f ELSE extractLease
    /\ downloadLease' = IF n = "download" THEN f ELSE downloadLease
    /\ session' = IF n = "session" THEN f ELSE session
    /\ cache' = IF n = "cache" THEN f ELSE cache

\* redis GET: the string stored, None after expiry
TtlRedisGet(n, k) == IF StoreOf(n)[k] = None THEN None ELSE Some(Val(StoreOf(n)[k]).data)

\* redis SETEX name time value
TtlRedisSetex(n, k, time, value, a) ==
    [StoreOf(n) EXCEPT ![k] = Some([data |-> value, ttl |-> time, age |-> a])]

\* the call that returned: method, store, key, value passed in, result
NoCall == [op |-> "none", store |-> "none", key |-> "none", arg |-> None, result |-> None]
Returned(o, n, k, a, res) == [op |-> o, store |-> n, key |-> k, arg |-> a, result |-> res]

\* create_extract / create_download / create_session / store_media: SETEX
\* of the serialized value with the full ttl; returns the SETEX result
TtlCreate(n, k, d) ==
    /\ StoreBecomes(n, TtlRedisSetex(n, k, Ttl(n), Serialize(d), 0))
    /\ last' = Returned("create", n, k, Some(d), Some(TRUE))
    /\ UNCHANGED <<jobs, cb, igAwait, offered>>

\* get_extract / get_download / get_session / get_media, first command: GET;
\* on a miss the method returns None
TtlGet(n, k) ==
    /\ cb.pc = "idle"
    /\ LET data == TtlRedisGet(n, k) IN
         IF Truthy(data)
         THEN /\ cb' = [pc |-> "refresh", chat |-> k, kind |-> n, id |-> "none",
                        tmp |-> Deserialize(data)]
              /\ last' = NoCall
         ELSE /\ cb' = cb
              /\ last' = Returned("get", n, k, None, None)
    /\ UNCHANGED <<stores, jobs, igAwait, offered>>

\* a hit that returns the value read and writes nothing
TtlReadOnly ==
    /\ cb.pc = "refresh"
    /\ last' = Returned("get", cb.kind, cb.chat, None, cb.tmp)
    /\ cb' = Idle
    /\ UNCHANGED <<stores, jobs, igAwait, offered>>

\* get_* on a hit, second command: SETEX of the value read, re-serialized,
\* with the full ttl; the method returns the value read
TtlRefresh ==
    /\ cb.pc = "refresh"
    /\ LET n == cb.kind
           k == cb.chat
           a == IF StoreOf(n)[k] = None THEN 0 ELSE Val(StoreOf(n)[k]).age
       IN StoreBecomes(n, TtlRedisSetex(n, k, Ttl(n), Serialize(Val(cb.tmp)), a))
    /\ last' = Returned("get", cb.kind, cb.chat, None, cb.tmp)
    /\ cb' = Idle
    /\ UNCHANGED <<jobs, igAwait, offered>>

\* a release that reports success whether or not there was a lease
TtlDeleteAlwaysTrue(n, k) ==
    /\ StoreBecomes(n, [StoreOf(n) EXCEPT ![k] = None])
    /\ last' = Returned("delete", n, k, None, Some(TRUE))
    /\ UNCHANGED <<jobs, cb, igAwait, offered>>

\* delete_extract / delete_download: DEL; returns bool(number of keys removed)
TtlDelete(n, k) ==
    /\ StoreBecomes(n, [StoreOf(n) EXCEPT ![k] = None])
    /\ last' = Returned("delete", n, k, None, Some(StoreOf(n)[k] # None))
    /\ UNCHANGED <<jobs, cb, igAwait, offered>>

\* one tick for an entry: Redis removes it when its time has run out
Aged(e) ==
    IF e = None \/ Val(e).ttl = 1 THEN None
    ELSE Some([Val(e) EXCEPT !.ttl = @ - 1,
                             !.age = IF @ < MaxAge THEN @ + 1 ELSE @])

Tick ==
    /\ \E n \in StoreNames : \E k \in TtlKeys(n) : StoreOf(n)[k] # None
    /\ extractLease' = [k \in DOMAIN extractLease |-> Aged(extractLease[k])]
    /\ downloadLease' = [k \in DOMAIN downloadLease |-> Aged(downloadLease[k])]
    /\ session' = [k \in DOMAIN session |-> Aged(session[k])]
    /\ cache' = [k \in DOMAIN cache |-> Aged(cache[k])]
    /\ last' = NoCall
    /\ UNCHANGED <<jobs, cb, igAwait, offered>>

\* The stores share no key and no method touches two of them, so they are
\* explored one at a time: a store is written only while the others are empty.
OthersEmpty(n) ==
    \A o \in StoreNames \ {n} : \A k \in TtlKeys(o) : StoreOf(o)[k] = None

InitTTL ==
    /\ extractLease = [c \in TtlKeys("extract") |-> None]
    /\ downloadLease = [c \in TtlKeys("download") |-> None]
    /\ session = [c \in TtlKeys("session") |-> None]
    /\ cache = [u \in TtlKeys("cache") |-> None]
    /\ jobs = EmptyBag
    /\ cb = Idle
    /\ igAwait = {}
    /\ offered = [c \in AllChats |-> {}]
    /\ last = NoCall

NextTTL ==
    \/ \E n \in StoreNames : \E k \in TtlKeys(n) : \E d \in Payloads(n) :
            OthersEmpty(n) /\ TtlCreate(n, k, d)
    \/ \E n \in StoreNames : \E k \in TtlKeys(n) : TtlGet(n, k)
    \/ TtlRefresh
    \/ \E n \in LeaseStores : \E k \in TtlKeys(n) : TtlDelete(n, k)
    \/ Tick

SpecTTL == InitTTL /\ [][NextTTL]_vars

\* the entry of key k in store n, when there is one
Entry(n, k) == Val(StoreOf(n)[k])
Present(n, k) == StoreOf(n)[k] # None

\* C12: a lease nobody releases is gone once its time to live has passed
\* since it was acquired, whatever requests or presses are made meanwhile.
C12_AbandonedLeaseExpires ==
    \A n \in LeaseStores : \A k \in TtlKeys(n) :
        Present(n, k) => Entry(n, k).age < Ttl(n)

\* C13: the presence check of a lease is read-only: a get_extract or
\* get_download call, hit or miss, leaves the lease entry as it was, the
\* stored url/service and the time it has left.
\* (Checked for calls during which no other caller writes the key.)
C13_PresenceCheckReadOnly ==
    [][((/\ TtlRefresh
         /\ cb.kind \in LeaseStores
         /\ Present(cb.kind, cb.chat)
         /\ Entry(cb.kind, cb.chat).data = Serialize(Val(cb.tmp)))
          \/ \E n \in LeaseStores : \E k \in TtlKeys(n) : TtlGet(n, k))
        => UNCHANGED <<extractLease, downloadLease>>]_vars

\* C14: the read-with-refresh of a store is atomic with respect to the other
\* writers of the key: the refreshing write of get_session and of get_media
\* puts back the entry that is in the store, never an older value over one
\* that a concurrent create_session / store_media has written since the read.
C14_AtomicReadRefresh ==
    [][/\ CbRefreshSession => session' = session
       /\ \A r \in Live : GmiCacheHit(r) => cache' = cache]_vars

ReadRefreshed == {"session", "cache"}

\* C15: every successful get_session / get_media leaves the entry with the
\* value read and the full time to live, and no entry ever has more than the
\* full time to live left: read once per window it stays retrievable, left
\* alone for a full window it is gone.
C15_ReadResetsTtl ==
    [][\A n \in ReadRefreshed : \A k \in TtlKeys(n) :
         /\ (TtlRefresh /\ cb.kind = n /\ cb.chat = k)
              => /\ Present(n, k)'
                 /\ Entry(n, k)'.ttl = Ttl(n)
                 /\ Entry(n, k)'.data = Serialize(Val(cb.tmp))
         /\ Present(n, k)' => Entry(n, k)'.ttl \in 1..Ttl(n)]_vars

\* a get_session returned the session after the time at which the entry as
\* first written would have expired
C15_Witness ==
    /\ last.op = "get"
    /\ last.store = "session"
    /\ last.result # None
    /\ Present("session", last.key)
    /\ Entry("session", last.key).age >= SessionTtl

C17_ReleaseIdempotent ==
    [][\A n \in LeaseStores : \A k \in TtlKeys(n) :
         TtlDelete(n, k)
           => /\ ~Present(n, k)'
              /\ last'.result = Some(Present(n, k))
              /\ ~Present(n, k) => UNCHANGED stores]_vars

\* a release found no lease to delete and returned False
C17_Witness ==
    /\ last.op = "delete"
    /\ last.result = Some(FALSE)
    /\ ~Present(last.store, last.key)

\* ------------------------------------------------------ the bot by itself
\* The four callback handlers of the bot on any session a chat can have, with
\* the workers left out: submitted jobs stay in their lanes.
Sessions ==
    {None} \cup {Some(SessionData(u, ServiceOf(u), m)) : u \in Urls, m \in Medias}

InitCb ==
    /\ extractLease = [c \in AllChats |-> None]
    /\ downloadLease = [c \in AllChats |-> None]
    /\ session \in {[c \in AllChats |-> IF c \in Chats THEN f[c] ELSE None] :
                       f \in [Chats -> {o \in Sessions : o = None \/ Val(o).media_data \in Results(Val(o).url)}]}
    /\ cache = [u \in Urls |-> None]
    /\ jobs = EmptyBag
    /\ cb = Idle
    /\ igAwait = {}
    /\ offered \in {[c \in AllChats |-> IF c \in Chats THEN f[c] ELSE {}] : f \in [Chats -> SUBSET Medias]}
    /\ last = Nothing

NextCb ==
    \/ \E c \in Chats, k \in {"video", "audio"} : \E id \in Buttons(c, k) : CbGetDownload(c, k, id)
    \/ \E c \in Chats, k \in {"thumbnail", "image"} : \E id \in Buttons(c, k) : CbPreview(c, k, id)
    \/ CbBusy
    \/ CbGetSession
    \/ CbRefreshSession
    \/ CbCreateDownload
    \/ CbSubmit
    \/ \E c \in Chats : IgAnswered(c)
    \/ \E c \in Chats : ExpireDownload(c)

SpecCb == InitCb /\ [][NextCb]_vars

\* a handler that holds the fetched session and was pressed with a rendition
\* id which the session's collection of that kind does not contain
StaleReference ==
    /\ cb.pc \in {"session_refresh", "create"}
    /\ cb.kind \in {"video", "audio", "thumbnail"}
    /\ cb.id \notin Ids(cb.kind, Val(cb.tmp).media_data)

\* the handler's invocation ends in this step
HandlerEnds == cb.pc # "idle" /\ cb'.pc = "idle"

\* C18: a video, audio or thumbnail callback whose rendition id is not in the
\* current session ends as a session miss does: the user is told to resend
\* the link, nothing is raised, no download lease remains for the chat and no
\* job is submitted.
C18_StaleReferenceIsSessionMiss ==
    [][(StaleReference /\ HandlerEnds) =>
          /\ last' = Answer(cb.chat, "expired")
          /\ ~Truthy(downloadLease'[cb.chat])
          /\ jobs' = jobs]_vars

\* the step in which a handler reads the session of chat c and finds none:
\* handle_video / handle_audio after their lease check, handle_image /
\* handle_thumbnail at once
SessionMiss(c) ==
    /\ ~Truthy(session[c])
    /\ \/ cb.chat = c /\ CbGetSession
       \/ \E k \in {"thumbnail", "image"} : \E id \in Buttons(c, k) : CbPreview(c, k, id)

SharedUrls == {"yt"}

NextExtract ==
    \/ \E c \in AllChats, u \in SharedUrls : SendUrl(c, u)
    \/ \E r \in Live :
          \/ GmiGetExtract(r)
          \/ GmiBusy(r)
          \/ GmiCreateExtract(r)
          \/ GmiGetMedia(r)
          \/ GmiCacheHit(r)
          \/ HsCreateSession(r)
          \/ HsStoreMedia(r)
          \/ GmiDeleteExtract(r)
    \/ \E c \in AllChats : ExpireExtract(c)

SpecExtract == Init /\ [][NextExtract]_vars

\* get_media_info returned in the last step after _handle_success_response
\* ran to its end
ExtractionSucceeded == JobEnded /\ last.kind = "extract" /\ last.pc = "delivered"

\* C20: when an extraction job for (chat, url) has completed successfully,
\* the session of the chat and the cache entry of the url hold the same media
\* result and the session records that url and platform, whatever the
\* extraction jobs of other users did in between.
C20_SessionAndCacheIdentical ==
    ExtractionSucceeded =>
        \E m \in Medias :
            /\ session[last.chat] = Some(SessionData(last.url, last.service, m))
            /\ cache[last.url] = Some(CacheData(last.url, m))

\* ---------------------------------------------------------------- lanes
\* URLs of the platforms that Spec leaves out
MoreUrls == {"rd", "rt", "tt"}
AllUrls == Urls \cup MoreUrls

\* handle_video's task_map: the download task of a platform, None without one
task_map(service) ==
    IF service \in {"youtube", "reddit", "rutube", "tiktok"}
    THEN Some("download_" \o service \o "_video")
    ELSE None

\* the Celery task a job runs
TaskOf(r) ==
    CASE r.kind = "extract" -> "get_media_info"
      [] r.kind = "audio" -> "download_audio"
      [] OTHER -> Val(task_map(r.service))

\* a routing table that has lost the tiktok entry
task_routes_short(task) ==
    CASE task = "get_media_info" -> "information_queue"
      [] task = "download_youtube_video" -> "youtube_queue"
      [] task = "download_reddit_video" -> "reddit_queue"
      [] task = "download_rutube_video" -> "rutube_queue"
      [] task = "download_audio" -> "audio_queue"
      [] OTHER -> "celery"

\* app.conf task_routes; a task without a route goes to Celery's default queue
task_routes(task) ==
    CASE task = "get_media_info" -> "information_queue"
      [] task = "download_youtube_video" -> "youtube_queue"
      [] task = "download_reddit_video" -> "reddit_queue"
      [] task = "download_rutube_video" -> "rutube_queue"
      [] task = "download_tiktok_video" -> "tiktok_queue"
      [] task = "download_audio" -> "audio_queue"
      [] OTHER -> "celery"

\* the lane job r was put in
Lane(r) == task_routes(TaskOf(r))

\* The bot on a session of any of the five platforms: URLs are sent and the
\* buttons of the current offer (and an older one) are pressed; the workers
\* are left out.
InitRoute ==
    /\ extractLease = [c \in AllChats |-> None]
    /\ downloadLease = [c \in AllChats |-> None]
    /\ \E o \in {None} \cup {Some(SessionData(u, ServiceOf(u), m)) : u \in AllUrls, m \in Medias} :
          /\ o # None => Val(o).media_data \in Results(Val(o).url)
          /\ session = [c \in AllChats |-> IF c \in Chats THEN o ELSE None]
          /\ offered = [c \in AllChats |->
                           IF c \in Chats /\ o # None THEN {Val(o).media_data} ELSE {}]
    /\ cache = [u \in Urls |-> None]
    /\ jobs = EmptyBag
    /\ cb = Idle
    /\ igAwait = {}
    /\ last = Nothing

NextRoute ==
    \/ \E c \in Chats, u \in AllUrls : SendUrl(c, u)
    \/ NextCb

SpecRoute == InitRoute /\ [][NextRoute]_vars

\* the lane the routing rule names for a job
NamedLane(r) ==
    CASE r.kind = "extract" -> "information_queue"
      [] r.kind = "audio" -> "audio_queue"
      [] OTHER -> r.service \o "_queue"

\* a video handler that wrote the download lease ends in this step
AdmittedVideoEnds == HandlerEnds /\ cb.kind = "video" /\ cb.pc \in {"create", "submit"}

\* the step adds exactly one job, and it is in lane q
SubmitsOneTo(q) ==
    \E r \in Live' : jobs' = jobs (+) SetToBag({r}) /\ Lane(r) = q

\* C21 as stated: every job is in the lane named for its (platform,
\* operation), and an admitted video press of any of the five platforms
\* submits exactly one job, to the platform's lane.
C21_OneLanePerJob ==
    [][/\ \A r \in Live' : Lane(r) = NamedLane(r)
       /\ AdmittedVideoEnds => SubmitsOneTo(Val(cb.tmp).service \o "_queue")]_vars

\* C21 amended: every job is in the lane named for its (platform, operation);
\* an admitted video press for youtube, reddit, rutube or tiktok submits
\* exactly one job, to the platform's lane; one for instagram submits no job.
C21_OneLanePerSubmittedJob ==
    [][/\ \A r \in Live' : Lane(r) = NamedLane(r)
       /\ AdmittedVideoEnds =>
            IF Val(cb.tmp).service = "instagram"
            THEN jobs' = jobs
            ELSE SubmitsOneTo(Val(cb.tmp).service \o "_queue")]_vars

C21_Witness ==
    /\ \E r \in Live : r.kind = "video" /\ Lane(r) = "tiktok_queue"
    /\ \E r \in Live : r.kind = "extract" /\ Lane(r) = "information_queue"

\* ------------------------------------------------------ MediaProcessor
MaxCands == 3       \* candidates in one list

\* the values an optional numeric field takes; None: missing or null
Widths == {None, Some(0), Some(640), Some(1280), Some(1920)}
LanguagePreferences == {None, Some(-1), Some(1)}
Bitrates == {None, Some(500), Some(900)}

\* a test that takes every number for a width
NotNone(o) == o # None

\* `if width:` on an optional number: None and 0 are false
TruthyInt(o) == o # None /\ Val(o) # 0

\* the height that comes with a width
HeightOf(w) == (w * 9) \div 16

\* a video candidate without its id
VideoShapes ==
    [width : Widths, has_audio : BOOLEAN, language_preference : LanguagePreferences,
     total_bitrate : Bitrates]

\* lines 48-54 / 108-118: a missing preference or bitrate becomes 0
OrZero(o) == IF o = None THEN 0 ELSE Val(o)
Normalize(v) ==
    [v EXCEPT !.language_preference = Some(OrZero(@)), !.total_bitrate = Some(OrZero(@))]

\* the loops of lines 48-54 and 108-116 assign to the dicts of the list they
\* were given: this is the list as the caller finds it after the call
NormalizeAll(candidates) == [i \in 1..Len(candidates) |-> Normalize(candidates[i])]

\* Python's order on tuples of numbers (False < True as 0 < 1)
RECURSIVE TupleLess(_, _)
TupleLess(a, b) ==
    IF a = <<>> \/ b = <<>> THEN a = <<>> /\ b # <<>>
    ELSE IF Head(a) # Head(b) THEN Head(a) < Head(b)
    ELSE TupleLess(Tail(a), Tail(b))

\* a sort key that forgets the audio track
VideoKeyNoAudio(v) == <<Val(v.language_preference), Val(v.total_bitrate)>>

\* line 62: the sort key of parse_videos
VideoKey(v) ==
    <<IF v.has_audio THEN 1 ELSE 0, Val(v.language_preference), Val(v.total_bitrate)>>

\* sorted(videos, key=VideoKey, reverse=True): stable, so x goes behind every
\* element whose key is not smaller than its own
InsertVideo(sorted, x) ==
    LET smaller == {i \in 1..Len(sorted) : TupleLess(VideoKey(sorted[i]), VideoKey(x))}
        at == IF smaller = {} THEN Len(sorted) + 1
              ELSE CHOOSE i \in smaller : \A j \in smaller : i <= j
    IN SubSeq(sorted, 1, at - 1) \o <<x>> \o SubSeq(sorted, at, Len(sorted))

RECURSIVE SortVideos(_)
SortVideos(videos) ==
    IF videos = <<>> THEN <<>>
    ELSE InsertVideo(SortVideos(SubSeq(videos, 1, Len(videos) - 1)), videos[Len(videos)])

\* lines 67-73, video_by_quality: the first of the sorted candidates for each
\* width; a candidate whose width is None or 0 is skipped (line 70)
VideoByQuality(sorted) ==
    LET ws == {Val(sorted[i].width) : i \in {j \in 1..Len(sorted) : TruthyInt(sorted[j].width)}}
    IN [w \in ws |->
          sorted[CHOOSE i \in 1..Len(sorted) :
                    /\ sorted[i].width = Some(w)
                    /\ \A j \in 1..(i - 1) : sorted[j].width # Some(w)]]

\* sorted(keys) without reverse=True
RECURSIVE Ascending(_)
Ascending(S) ==
    IF S = {} THEN <<>>
    ELSE LET m == CHOOSE x \in S : \A y \in S : x <= y
         IN <<m>> \o Ascending(S \ {m})

\* sorted(keys, reverse=True)
RECURSIVE Descending(_)
Descending(S) ==
    IF S = {} THEN <<>>
    ELSE LET m == CHOOSE x \in S : \A y \in S : y <= x
         IN <<m>> \o Descending(S \ {m})

MediaButton(row, label, callback_data) ==
    [row |-> row, label |-> label, callback_data |-> callback_data]

\* MediaProcessor.parse_videos, lines 41-99
parse_videos(videos) ==
    LET by == VideoByQuality(SortVideos([i \in 1..Len(videos) |-> Normalize(videos[i])]))
        qualities == Descending(DOMAIN by)
    IN [i \in 1..Len(qualities) |->
          LET video == by[qualities[i]] IN
          MediaButton(1,
                      IF Len(qualities) = 1
                      THEN (IF video.has_audio THEN "Video + Audio" ELSE "Video")
                      ELSE ToString(HeightOf(qualities[i])) \o "p"
                             \o (IF video.has_audio THEN " +audio" ELSE ""),
                      "video:" \o video.id)]

\* an audio candidate without its id
AudioShapes == [language_preference : LanguagePreferences, total_bitrate : Bitrates]

\* a key that looks at the bitrate only
AudioKeyBitrate(a) == <<Val(a.total_bitrate)>>

\* line 122: the key of parse_audios
AudioKey(a) == <<Val(a.language_preference), Val(a.total_bitrate)>>

\* max(audios, key=AudioKey): the first of the candidates with the largest key
MaxAudio(audios) ==
    audios[CHOOSE i \in 1..Len(audios) :
              /\ \A j \in 1..Len(audios) : ~TupleLess(AudioKey(audios[i]), AudioKey(audios[j]))
              /\ \A j \in 1..(i - 1) : TupleLess(AudioKey(audios[j]), AudioKey(audios[i]))]

\* MediaProcessor.parse_audios, lines 101-129: None, or the one button
parse_audios(audios) ==
    IF audios = <<>> THEN None
    ELSE LET best_audio == MaxAudio([i \in 1..Len(audios) |-> Normalize(audios[i])])
         IN Some(MediaButton(2, "Audio", "audio:" \o best_audio.id))

\* a preview button whose callback string has no separator
parse_thumbnails_unseparated(thumbnails) ==
    IF thumbnails = <<>> THEN None
    ELSE Some(MediaButton(3, "Preview", "thumbnail" \o thumbnails[Len(thumbnails)].id))

\* a preview button that is there even without a thumbnail
parse_thumbnails_always(thumbnails) ==
    Some(MediaButton(3, "Preview",
                     "thumbnail:" \o (IF thumbnails = <<>> THEN "none"
                                      ELSE thumbnails[Len(thumbnails)].id)))

\* MediaProcessor.parse_thumbnails, lines 131-144: the last one
parse_thumbnails(thumbnails) ==
    IF thumbnails = <<>> THEN None
    ELSE Some(MediaButton(3, "Preview", "thumbnail:" \o thumbnails[Len(thumbnails)].id))

\* an image candidate without its id
ImageShapes == [width : Widths]

\* lines 153-158 (and handle_image, 94-99), images_by_width: the images
\* under their width, None being a key like any other
ImagesByWidth(images) ==
    [w \in {images[i].width : i \in 1..Len(images)} |->
        SelectSeq(images, LAMBDA image : image.width = w)]

\* max(keys) of Python: compares the keys with >, which None does not
\* support, so None next to a number raises TypeError; a single key is
\* returned without a comparison
MaxKey(keys) ==
    IF keys = {None} THEN None
    ELSE IF None \in keys THEN Raised
    ELSE CHOOSE w \in keys : \A v \in keys : Val(v) <= Val(w)

\* lines 161-162 (handle_image 102-103), best_images: the images of the
\* largest width
BestImages(images) ==
    LET max_quality == MaxKey(DOMAIN ImagesByWidth(images))
    IN IF max_quality = Raised THEN Raised ELSE ImagesByWidth(images)[max_quality]

\* MediaProcessor.parse_images, lines 146-176: one button for the gallery of
\* the images of the largest width
parse_images(images) ==
    IF images = <<>> THEN None
    ELSE LET best_images == BestImages(images)
         IN IF best_images = Raised THEN Raised
            ELSE Some(MediaButton(1, IF Len(best_images) = 1 THEN "Image" ELSE "Images",
                                  "image"))

\* _handle_success_response lines 296-324 with _create_keyboard_layout
\* (179-185): the buttons in the order they are put on the keyboard.  A
\* missing button (None) adds nothing.
keyboard_data(media_data) ==
    IF media_data.is_video
    THEN parse_videos(media_data.videos) \o parse_audios(media_data.audios)
            \o parse_thumbnails(media_data.thumbnails)
    ELSE IF media_data.is_image
    THEN (IF parse_images(media_data.images) = Raised THEN Raised
          ELSE parse_images(media_data.images) \o parse_audios(media_data.audios))
    ELSE <<>>

\* the media results the keyboard is assembled for: up to MaxCands videos that
\* differ in width and audio track, up to MaxExtras of each other kind
MaxExtras == 1
MediaFields == {"videos", "audios", "thumbnails", "images"}
MediaLimit(field) == IF field = "videos" THEN MaxCands ELSE MaxExtras
MediaShapes(field) ==
    CASE field = "videos" ->
           {v \in VideoShapes : v.language_preference = None /\ v.total_bitrate = None}
      [] field = "audios" -> {a \in AudioShapes : a.language_preference = None}
      [] field = "thumbnails" -> {[width |-> 640]}
      [] OTHER -> {i \in ImageShapes : i.width # None}
IdPrefix(field) ==
    CASE field = "videos" -> "v" [] field = "audios" -> "a"
      [] field = "thumbnails" -> "t" [] OTHER -> "i"

\* One call of a MediaProcessor function: the extractor's list is put
\* together candidate by candidate, then the function is applied to it.
InitSelect ==
    /\ extractLease = [c \in AllChats |-> None]
    /\ downloadLease = [c \in AllChats |-> None]
    /\ session = [c \in AllChats |-> None]
    /\ cache = [u \in Urls |-> None]
    /\ jobs = EmptyBag
    /\ igAwait = {}
    /\ offered = [c \in AllChats |-> {}]
    /\ last = NoCall
    /\ \/ \E p \in {"videos", "audios", "images"} :
             cb = [pc |-> p, chat |-> "none", kind |-> "none", id |-> "none", tmp |-> <<>>]
       \/ \E kind \in {"video", "image", "none"} :
             cb = [pc |-> "media", chat |-> "none", kind |-> "none", id |-> "none",
                   tmp |-> [is_video |-> kind = "video", is_image |-> kind = "image",
                            videos |-> <<>>, audios |-> <<>>, thumbnails |-> <<>>,
                            images |-> <<>>]]

\* the extractor appends a video candidate; each has its own id
AddVideo(shape) ==
    /\ cb.pc = "videos"
    /\ Len(cb.tmp) < MaxCands
    /\ cb' = [cb EXCEPT !.tmp = Append(@,
                 [id |-> "v" \o ToString(Len(cb.tmp) + 1), width |-> shape.width,
                  has_audio |-> shape.has_audio,
                  language_preference |-> shape.language_preference,
                  total_bitrate |-> shape.total_bitrate])]
    /\ UNCHANGED <<stores, jobs, igAwait, offered, last>>

ParseVideos ==
    /\ cb.pc = "videos"
    /\ last' = Returned("parse_videos", "none", "none", cb.tmp, parse_videos(cb.tmp))
    /\ cb' = [cb EXCEPT !.pc = "done", !.tmp = NormalizeAll(@)]
    /\ UNCHANGED <<stores, jobs, igAwait, offered>>

\* the extractor appends an audio candidate; each has its own id
AddAudio(shape) ==
    /\ cb.pc = "audios"
    /\ Len(cb.tmp) < MaxCands
    /\ cb' = [cb EXCEPT !.tmp = Append(@,
                 [id |-> "a" \o ToString(Len(cb.tmp) + 1),
                  language_preference |-> shape.language_preference,
                  total_bitrate |-> shape.total_bitrate])]
    /\ UNCHANGED <<stores, jobs, igAwait, offered, last>>

ParseAudios ==
    /\ cb.pc = "audios"
    /\ last' = Returned("parse_audios", "none", "none", cb.tmp, parse_audios(cb.tmp))
    /\ cb' = [cb EXCEPT !.pc = "done", !.tmp = NormalizeAll(@)]
    /\ UNCHANGED <<stores, jobs, igAwait, offered>>

\* the extractor appends an image candidate; each has its own id
AddImage(shape) ==
    /\ cb.pc = "images"
    /\ Len(cb.tmp) < MaxCands
    /\ cb' = [cb EXCEPT !.tmp = Append(@,
                 [id |-> "i" \o ToString(Len(cb.tmp) + 1), width |-> shape.width])]
    /\ UNCHANGED <<stores, jobs, igAwait, offered, last>>

ParseImages ==
    /\ cb.pc = "images"
    /\ last' = Returned("parse_images", "none", "none", cb.tmp, parse_images(cb.tmp))
    /\ cb' = [cb EXCEPT !.pc = "done"]
    /\ UNCHANGED <<stores, jobs, igAwait, offered>>

\* the extractor appends a rendition to a collection of the media result
AddMedia(field, shape) ==
    /\ cb.pc = "media"
    /\ Len(cb.tmp[field]) < MediaLimit(field)
    /\ cb' = [cb EXCEPT !.tmp[field] = Append(@,
                 [id |-> IdPrefix(field) \o ToString(Len(cb.tmp[field]) + 1)] @@ shape)]
    /\ UNCHANGED <<stores, jobs, igAwait, offered, last>>

\* media_data when lines 296-324 are through: the lists handed to
\* parse_videos and parse_audios are the lists of media_data itself
MediaAfterParsing(media_data) ==
    IF media_data.is_video
    THEN [media_data EXCEPT !.videos = NormalizeAll(@), !.audios = NormalizeAll(@)]
    ELSE IF media_data.is_image /\ parse_images(media_data.images) # Raised
    THEN [media_data EXCEPT !.audios = NormalizeAll(@)]
    ELSE media_data

HandleSuccessKeyboard ==
    /\ cb.pc = "media"
    /\ last' = Returned("keyboard", "none", "none", cb.tmp, keyboard_data(cb.tmp))
    /\ cb' = [cb EXCEPT !.pc = "done", !.tmp = MediaAfterParsing(@)]
    /\ UNCHANGED <<stores, jobs, igAwait, offered>>

NextSelect ==
    \/ \E shape \in VideoShapes : AddVideo(shape)
    \/ ParseVideos
    \/ \E shape \in AudioShapes : AddAudio(shape)
    \/ ParseAudios
    \/ \E shape \in ImageShapes : AddImage(shape)
    \/ ParseImages
    \/ \E field \in MediaFields : \E shape \in MediaShapes(field) : AddMedia(field, shape)
    \/ HandleSuccessKeyboard

SpecSelect == InitSelect /\ [][NextSelect]_vars

\* a width in pixels: a number, and not 0
PixelWidth(o) == o # None /\ Val(o) > 0

\* the candidate of list vs that a button refers to
Offered(vs, kind, button) ==
    {i \in 1..Len(vs) : button.callback_data = kind \o ":" \o vs[i].id}

\* candidate a is below candidate b in the order (hasAudio, languagePreference,
\* bitrate), missing taken as 0
VideoBelow(a, b) ==
    TupleLess(<<IF a.has_audio THEN 1 ELSE 0, OrZero(a.language_preference), OrZero(a.total_bitrate)>>,
              <<IF b.has_audio THEN 1 ELSE 0, OrZero(b.language_preference), OrZero(b.total_bitrate)>>)

\* C22: for every width that occurs in the list of video candidates (a
\* number other than 0, which stands for "unknown") exactly one button is
\* offered, and its candidate is a maximum, among the candidates
\* of that width, of the order (hasAudio, languagePreference, bitrate).
C22_VideoBucketing ==
    last.op = "parse_videos" =>
        LET vs == last.arg
            buttons == last.result
        IN \A i \in 1..Len(vs) : PixelWidth(vs[i].width) =>
              \E b \in 1..Len(buttons) :
                 /\ \E j \in Offered(vs, "video", buttons[b]) :
                       /\ vs[j].width = vs[i].width
                       /\ \A k \in 1..Len(vs) :
                             vs[k].width = vs[i].width => ~VideoBelow(vs[j], vs[k])
                 /\ \A c \in 1..Len(buttons) :
                       (\E j \in Offered(vs, "video", buttons[c]) : vs[j].width = vs[i].width)
                           => c = b

C22_Witness ==
    /\ last.op = "parse_videos"
    /\ Len(last.arg) = 2
    /\ last.arg[1] = [id |-> "v1", width |-> Some(640), has_audio |-> FALSE,
                      language_preference |-> None, total_bitrate |-> Some(900)]
    /\ last.arg[2] = [id |-> "v2", width |-> Some(640), has_audio |-> TRUE,
                      language_preference |-> None, total_bitrate |-> Some(500)]
    /\ Len(last.result) = 1
    /\ last.result[1].callback_data = "video:v2"

\* audio candidate a is below b in the order (languagePreference, bitrate),
\* missing taken as 0
AudioBelow(a, b) ==
    TupleLess(<<OrZero(a.language_preference), OrZero(a.total_bitrate)>>,
              <<OrZero(b.language_preference), OrZero(b.total_bitrate)>>)

\* C23: for every non-empty list of audio candidates exactly one audio button
\* is produced, and it refers to a candidate that is maximal for
\* (languagePreference, bitrate); for an empty list none is produced.
C23_AudioSelection ==
    last.op = "parse_audios" =>
        IF last.arg = <<>> THEN last.result = None
        ELSE /\ last.result # None
             /\ \E j \in Offered(last.arg, "audio", Val(last.result)) :
                   \A k \in 1..Len(last.arg) : ~AudioBelow(last.arg[j], last.arg[k])

C23_Witness ==
    /\ last.op = "parse_audios"
    /\ Len(last.arg) = 3
    /\ last.arg[1] = [id |-> "a1", language_preference |-> None, total_bitrate |-> Some(900)]
    /\ last.arg[2] = [id |-> "a2", language_preference |-> Some(1), total_bitrate |-> None]
    /\ last.arg[3] = [id |-> "a3", language_preference |-> Some(1), total_bitrate |-> Some(500)]
    /\ last.result = Some(MediaButton(2, "Audio", "audio:a3"))

\* the width of the candidate of list vs that a video button refers to
ButtonWidth(vs, button) ==
    Val(vs[CHOOSE j \in Offered(vs, "video", button) : TRUE].width)

\* the positions of the buttons of a kind on a keyboard
ButtonsOf(vs, kind, buttons) ==
    {b \in 1..Len(buttons) : Offered(vs, kind, buttons[b]) # {}}

\* C24: the video buttons come in strictly decreasing order of bucket width,
\* and on the assembled keyboard every video button precedes the audio
\* button.
C24_VideoButtonOrder ==
    /\ last.op = "parse_videos" =>
          \A b \in 1..(Len(last.result) - 1) :
              ButtonWidth(last.arg, last.result[b]) > ButtonWidth(last.arg, last.result[b + 1])
    /\ last.op = "keyboard" =>
          LET videos == ButtonsOf(last.arg.videos, "video", last.result)
              audios == ButtonsOf(last.arg.audios, "audio", last.result)
          IN /\ \A b \in videos, c \in videos :
                   b < c => ButtonWidth(last.arg.videos, last.result[b])
                              > ButtonWidth(last.arg.videos, last.result[c])
             /\ \A b \in videos, c \in audios : b < c

C24_Witness ==
    /\ last.op = "keyboard"
    /\ Len(last.arg.videos) = 3
    /\ last.arg.videos[1].width = Some(640)
    /\ last.arg.videos[2].width = Some(1280)
    /\ last.arg.videos[3].width = Some(1920)
    /\ Len(last.arg.audios) = 1
    /\ Len(last.result) >= 4
    /\ [b \in 1..4 |-> last.result[b].callback_data]
          = <<"video:v3", "video:v2", "video:v1", "audio:a1">>

\* how often the job called the extractor
ExtractorCalls(r) == Cardinality({i \in 1..Len(r.log) : r.log[i] = "extract"})

\* C25: on a cache hit the job does not call the extractor and goes on as a
\* success with the cached result; on a miss it calls the extractor exactly
\* once, and a failure it reports is the extractor's, never the miss itself.
C25_CacheHitSkipsExtractor ==
    [][\A r \in Live :
          /\ (GmiGetMedia(r) /\ Truthy(cache[r.url])) =>
                Moved(r, "cache_refresh", cache[r.url], <<>>) \in Live'
          /\ GmiCacheHit(r) =>
                /\ ExtractorCalls(r) = 0
                /\ Moved(r, "hs_session", Some(Val(r.tmp).data), <<"result_success">>) \in Live'
          /\ (GmiGetMedia(r) /\ ~Truthy(cache[r.url])) =>
                \E q \in Live' \cup {last'} :
                   /\ q.chat = r.chat /\ q.kind = "extract"
                   /\ Len(q.log) > Len(r.log)
                   /\ SubSeq(q.log, 1, Len(r.log) + 1) = r.log \o <<"extract">>
                   /\ ExtractorCalls(q) = 1]_vars

C25_Witness ==
    /\ ExtractionSucceeded
    /\ ExtractorCalls(last) = 0
    /\ Has(last, "result_success")

\* -------------------------------------------- the keys of UserActivityQueue
\* Both leases of a chat live in one Redis database, under the keys these two
\* functions make.  In this specification extractLease is that database.

\* a key function that reuses the extraction prefix
get_download_queue_key_shared(chat_id) == "user_extract:" \o chat_id

\* UserActivityQueue._get_extract_queue_key, lines 36-46
get_extract_queue_key(chat_id) == "user_extract:" \o chat_id

\* UserActivityQueue._get_download_queue_key, lines 48-58
get_download_queue_key(chat_id) == "user_download:" \o chat_id

QueueKey(n, chat_id) ==
    IF n = "extract" THEN get_extract_queue_key(chat_id) ELSE get_download_queue_key(chat_id)

ActivityKeys == {QueueKey(n, c) : n \in LeaseStores, c \in AllChats}

InitKeys ==
    /\ extractLease = [k \in ActivityKeys |-> None]
    /\ downloadLease = [c \in AllChats |-> None]
    /\ session = [c \in AllChats |-> None]
    /\ cache = [u \in Urls |-> None]
    /\ jobs = EmptyBag
    /\ cb = Idle
    /\ igAwait = {}
    /\ offered = [c \in AllChats |-> {}]
    /\ last = NoCall

\* create_extract / create_download: SETEX key ttl json
KeyCreate(n, c, d) ==
    /\ extractLease' = [extractLease EXCEPT ![QueueKey(n, c)] = Some(Serialize(d))]
    /\ last' = Returned("create", n, c, Some(d), Some(TRUE))
    /\ UNCHANGED <<downloadLease, session, cache, jobs, cb, igAwait, offered>>

\* get_extract / get_download, first command: GET; a miss returns None
KeyGet(n, c) ==
    /\ cb.pc = "idle"
    /\ LET data == extractLease[QueueKey(n, c)] IN
         IF Truthy(data)
         THEN /\ cb' = [pc |-> "refresh", chat |-> c, kind |-> n, id |-> "none",
                        tmp |-> Deserialize(data)]
              /\ last' = NoCall
         ELSE /\ cb' = cb
              /\ last' = Returned("get", n, c, None, None)
    /\ UNCHANGED <<stores, jobs, igAwait, offered>>

\* get_extract / get_download on a hit: SETEX of the value read
KeyRefresh ==
    /\ cb.pc = "refresh"
    /\ extractLease' = [extractLease EXCEPT ![QueueKey(cb.kind, cb.chat)] =
                           Some(Serialize(Val(cb.tmp)))]
    /\ last' = Returned("get", cb.kind, cb.chat, None, cb.tmp)
    /\ cb' = Idle
    /\ UNCHANGED <<downloadLease, session, cache, jobs, igAwait, offered>>

\* delete_extract / delete_download: DEL; bool(number of keys removed)
KeyDelete(n, c) ==
    /\ extractLease' = [extractLease EXCEPT ![QueueKey(n, c)] = None]
    /\ last' = Returned("delete", n, c, None, Some(extractLease[QueueKey(n, c)] # None))
    /\ UNCHANGED <<downloadLease, session, cache, jobs, cb, igAwait, offered>>

NextKeys ==
    \/ \E n \in LeaseStores, c \in AllChats : \E d \in Payloads(n) : KeyCreate(n, c, d)
    \/ \E n \in LeaseStores, c \in AllChats : KeyGet(n, c)
    \/ KeyRefresh
    \/ \E n \in LeaseStores, c \in AllChats : KeyDelete(n, c)

SpecKeys == InitKeys /\ [][NextKeys]_vars

\* the lease of kind n that chat c holds
LeaseOf(n, c) == extractLease[QueueKey(n, c)]

\* C26: creating, reading or deleting the lease of one kind never creates,
\* changes or deletes a lease of the other kind, so the answer of a presence
\* check of one kind does not depend on the lease of the other kind.
C26_LeasesIndependent ==
    [][\A n \in LeaseStores, c \in AllChats :
          (\/ \E d \in Payloads(n) : KeyCreate(n, c, d)
           \/ KeyGet(n, c)
           \/ KeyRefresh /\ cb.kind = n /\ cb.chat = c
           \/ KeyDelete(n, c))
          => \A m \in LeaseStores \ {n}, k \in AllChats : LeaseOf(m, k)' = LeaseOf(m, k)]_vars

C26_Witness ==
    /\ last = Returned("get", "extract", "c1", None, None)
    /\ LeaseOf("extract", "c1") = None
    /\ LeaseOf("download", "c1") # None

\* ------------------------------------------- store methods that can fail
\* Every store method is one try block around its Redis commands and its
\* (de)serialization, with "except Exception" returning the failure value.
\* Here any of those calls can raise.

\* a method body without the try block
Unprotected(outcome, failure) == outcome

\* try: <body> except Exception: return <failure>
TryExcept(outcome, failure) == IF outcome = Raised THEN failure ELSE outcome

\* the places inside a method at which a call can raise
Faults == {"none", "redis", "json"}

\* what a method call did: fault is the call inside it that raised
Outcome(o, n, k, fault, res) ==
    [op |-> o, store |-> n, key |-> k, fault |-> fault, result |-> res]

InitFail ==
    /\ extractLease = [c \in TtlKeys("extract") |-> None]
    /\ downloadLease = [c \in TtlKeys("download") |-> None]
    /\ session = [c \in TtlKeys("session") |-> None]
    /\ cache = [u \in TtlKeys("cache") |-> None]
    /\ jobs = EmptyBag
    /\ cb = Idle
    /\ igAwait = {}
    /\ offered = [c \in AllChats |-> {}]
    /\ last = Outcome("none", "none", "none", "none", None)

\* create_extract / create_download / create_session / store_media:
\* _serialize, then SETEX; returns the result of SETEX
FailCreate(n, k, d, fault) ==
    /\ IF fault = "none"
       THEN StoreBecomes(n, [StoreOf(n) EXCEPT ![k] = Some(Serialize(d))])
       ELSE UNCHANGED stores
    /\ last' = Outcome("create", n, k, fault,
                       TryExcept(IF fault = "none" THEN Some(TRUE) ELSE Raised, Some(FALSE)))
    /\ UNCHANGED <<jobs, cb, igAwait, offered>>

\* get_*: GET, then on a hit _deserialize
FailGet(n, k, fault) ==
    /\ cb.pc = "idle"
    /\ LET data == StoreOf(n)[k] IN
         IF fault = "none" /\ Truthy(data)
         THEN /\ cb' = [pc |-> "refresh", chat |-> k, kind |-> n, id |-> "none",
                        tmp |-> Deserialize(data)]
              /\ last' = Outcome("none", "none", "none", "none", None)
         ELSE /\ cb' = cb
              /\ fault = "json" => Truthy(data)
              /\ last' = Outcome("get", n, k, fault,
                                 TryExcept(IF fault = "none" THEN None ELSE Raised, None))
    /\ UNCHANGED <<stores, jobs, igAwait, offered>>

\* get_* on a hit: _serialize and SETEX of the value read, then the return
FailRefresh(fault) ==
    /\ cb.pc = "refresh"
    /\ IF fault = "none"
       THEN StoreBecomes(cb.kind, [StoreOf(cb.kind) EXCEPT ![cb.chat] = Some(Serialize(Val(cb.tmp)))])
       ELSE UNCHANGED stores
    /\ last' = Outcome("get", cb.kind, cb.chat, fault,
                       TryExcept(IF fault = "none" THEN cb.tmp ELSE Raised, None))
    /\ cb' = Idle
    /\ UNCHANGED <<jobs, igAwait, offered>>

\* delete_extract / delete_download: DEL, bool(result)
FailDelete(n, k, fault) ==
    /\ fault # "json"
    /\ IF fault = "none"
       THEN StoreBecomes(n, [StoreOf(n) EXCEPT ![k] = None])
       ELSE UNCHANGED stores
    /\ last' = Outcome("delete", n, k, fault,
                       TryExcept(IF fault = "none" THEN Some(StoreOf(n)[k] # None) ELSE Raised,
                                 Some(FALSE)))
    /\ UNCHANGED <<jobs, cb, igAwait, offered>>

NextFail ==
    \/ \E n \in StoreNames : \E k \in TtlKeys(n) : \E d \in Payloads(n) : \E fault \in Faults :
            FailCreate(n, k, d, fault)
    \/ \E n \in StoreNames : \E k \in TtlKeys(n) : \E fault \in Faults : FailGet(n, k, fault)
    \/ \E fault \in Faults : FailRefresh(fault)
    \/ \E n \in LeaseStores : \E k \in TtlKeys(n) : \E fault \in Faults : FailDelete(n, k, fault)

SpecFail == InitFail /\ [][NextFail]_vars

\* C27: no store method raises to its caller; when the store or the
\* (de)serialization fails inside it, a create method returns False, a get
\* method returns absent and a delete method returns False.
C27_StoreMethodsNeverRaise ==
    /\ last.result # Raised
    /\ last.fault # "none" =>
          last.result = (IF last.op = "get" THEN None ELSE Some(FALSE))

C27_Witness ==
    /\ last.op = "get"
    /\ last.store = "session"
    /\ last.fault = "redis"
    /\ last.result = None
    /\ session["c1"] # None

\* ------------------------------------------------------ callback strings
\* str.split(sep): the pieces of s between the occurrences of sep
RECURSIVE Split(_, _)
Split(s, sep) ==
    LET at == {i \in 1..Len(s) : SubSeq(s, i, i) = sep} IN
    IF at = {} THEN <<s>>
    ELSE LET i == CHOOSE x \in at : \A y \in at : x <= y
         IN <<SubSeq(s, 1, i - 1)>> \o Split(SubSeq(s, i + 1, Len(s)), sep)

\* content_type, rendition_id = callback.data.split(":") (handle_video line
\* 34, handle_audio 150, handle_thumbnail 183): ValueError unless two pieces
SplitCallback(data) ==
    IF Len(Split(data, ":")) = 2 THEN Some(Split(data, ":")) ELSE Raised

\* the ids of the renditions of a media result in the collection of a kind
RenditionIds(media_data, kind) ==
    LET coll == media_data[kind \o "s"] IN {coll[i].id : i \in 1..Len(coll)}

\* the callback string is kind:renditionId for a rendition of the result
WellFormedCallback(media_data, data) ==
    /\ SplitCallback(data) # Raised
    /\ LET parts == Val(SplitCallback(data)) IN
          /\ parts[1] \in {"video", "audio", "image", "thumbnail"}
          /\ parts[2] \in RenditionIds(media_data, parts[1])

\* C28 as stated: every callback string on an offered keyboard is
\* kind:renditionId, kind one of video, audio, image, thumbnail and renditionId
\* the id of a rendition of the result, and splits into exactly these two.
C28_CallbackStrings ==
    last.op = "keyboard" =>
        \A b \in 1..Len(last.result) :
            WellFormedCallback(last.arg, last.result[b].callback_data)

\* C28 amended: the callback strings of the video, audio and thumbnail
\* buttons are kind:renditionId and split into exactly these two parts; the
\* gallery button carries the bare word image, which handle_image never splits.
C28_CallbackStringsButGallery ==
    last.op = "keyboard" =>
        \A b \in 1..Len(last.result) :
            \/ last.result[b].callback_data = "image"
            \/ /\ WellFormedCallback(last.arg, last.result[b].callback_data)
               /\ Val(SplitCallback(last.result[b].callback_data))[1] # "image"

C28_Witness ==
    /\ last.op = "keyboard"
    /\ Len(last.result) = 3
    /\ SplitCallback(last.result[1].callback_data) = Some(<<"video", "v1">>)
    /\ SplitCallback(last.result[2].callback_data) = Some(<<"audio", "a1">>)
    /\ SplitCallback(last.result[3].callback_data) = Some(<<"thumbnail", "t1">>)

\* the job has sent its terminal outcome: the choice offer, the media file or
\* the failure message
SentTerminal(r) == \E e \in {"offer", "media", "failure"} : Has(r, e)

\* C29: a lease is released by its job only after the job's terminal outcome
\* was sent: delete_extract after the choice offer or the failure message,
\* delete_download after the media file or the failure message, and in the
\* instagram branch of handle_video after the video was answered.
C29_ReleaseAfterOutcome ==
    [][/\ \A r \in Live :
             (GmiDeleteExtract(r) \/ DlDeleteDownload(r)) => SentTerminal(r)
       /\ \A c \in Chats :
             (IgAnswered(c) /\ downloadLease' # downloadLease) => last' = Answer(c, "sent")]_vars

C29_Witness ==
    /\ JobEnded
    /\ last.kind # "extract"
    /\ Has(last, "media")
    /\ last.log[Len(last.log)] = "release"
    /\ ~Truthy(downloadLease[last.chat])

\* job r takes this step
ExtractionStep(r) ==
    \/ GmiGetExtract(r) \/ GmiBusy(r) \/ GmiCreateExtract(r) \/ GmiGetMedia(r)
    \/ GmiCacheHit(r) \/ HsCreateSession(r) \/ HsStoreMedia(r) \/ GmiDeleteExtract(r)

\* C30: only an extraction that succeeded writes the session of the chat or
\* the cache entry of the url; a job rejected at admission and a job whose
\* result has status error leave both exactly as they were.
C30_OnlySuccessWrites ==
    [][/\ \A r \in Live :
             (ExtractionStep(r) /\ (session' # session \/ cache' # cache))
                => (GmiCacheHit(r) \/ Has(r, "result_success"))
       /\ \A r \in Live' \cup {last'} :
             Has(r, "result_success") => ~(Has(r, "result_error") \/ Has(r, "busy"))]_vars

C30_Witness ==
    /\ JobEnded
    /\ last.kind = "extract"
    /\ Has(last, "result_error")
    /\ last.pc = "failed"
    /\ Truthy(cache[last.url])
    /\ Truthy(session[last.chat])

\* ------------------------------------------------- the placeholder message
\* The chat as Telegram keeps it: here offered[c] is the history of chat c, a
\* sequence of messages; Telegram numbers the messages of a chat in the
\* order they arrive, and a deleted message keeps its number.
MaxMessages == 3    \* messages per chat

Message(id, text) == [message_id |-> id, text |-> text, deleted |-> FALSE]

\* Bot.send_message of aiogram: the message enters the chat
BotSendMessage(history, text) == Append(history, Message(Len(history) + 1, text))

\* ... and the Message object is the call's result
SentMessage(history, text) == Some(Message(Len(history) + 1, text))

\* telegram_client.send_message, lines 132-137: awaits bot.send_message and
\* ends without a return statement (annotated -> None)
send_message(sent) == None

\* `message.message_id`: attribute access; None has no such attribute
message_id(message) == IF message = None THEN Raised ELSE Val(message).message_id

DownloadKinds == {"video", "audio"}

InitNotify ==
    /\ extractLease = [c \in AllChats |-> None]
    /\ downloadLease = [c \in AllChats |-> None]
    /\ session = [c \in AllChats |-> None]
    /\ cache = [u \in Urls |-> None]
    /\ jobs = EmptyBag
    /\ cb = Idle
    /\ igAwait = {}
    /\ offered = [c \in AllChats |-> <<>>]
    /\ last = Nothing

\* the user writes to the chat (the URL, or anything else)
UserWrites(c) ==
    /\ Len(offered[c]) < MaxMessages
    /\ offered' = [offered EXCEPT ![c] = BotSendMessage(@, "user")]
    /\ last' = Nothing
    /\ UNCHANGED <<stores, jobs, cb, igAwait>>

\* a job for chat c reaches a worker's lane
NotifySubmit(c, k) ==
    /\ BagCardinality(jobs) < MaxJobs
    /\ jobs' = jobs (+) SetToBag({NewJob(k, c, "yt", ServiceOf("yt"))})
    /\ last' = Nothing
    /\ UNCHANGED <<stores, cb, igAwait, offered>>

\* download_<service>_<kind>, first statement: msg_id = _notify_user_start(chat_id)
\* (downloads_worker.py 17-30): the placeholder is sent, and the handle is
\* read off send_message's return value
NotifyUserStart(r) ==
    /\ IsDownload(r, "queued")
    /\ Len(offered[r.chat]) < MaxMessages
    /\ offered' = [offered EXCEPT ![r.chat] = BotSendMessage(@, "placeholder")]
    /\ LET message == send_message(SentMessage(offered[r.chat], "placeholder"))
           msg_id == message_id(message)
       IN  IF msg_id = Raised
           THEN Crash(r, <<"placeholder">>)
           ELSE Step(r, "download", Some(msg_id), <<"placeholder">>)
    /\ UNCHANGED <<stores, cb, igAwait>>

\* get_media_info, lines 204-213: a lease is there (GET and refreshing
\* SETEX of the same value), the notice is sent, return
NotifyBusy(r) ==
    /\ IsExtract(r, "queued")
    /\ Truthy(RedisGet(extractLease, r.chat))
    /\ Len(offered[r.chat]) < MaxMessages
    /\ offered' = [offered EXCEPT ![r.chat] = BotSendMessage(@, "busy")]
    /\ Return(r, "rejected", <<"busy">>)
    /\ UNCHANGED <<stores, cb, igAwait>>

\* get_media_info, lines 204, 215-230: no lease; create_extract, the
\* acknowledgement is sent, and delete_message is called with
\* message.message_id of send_message's return value
NotifyAcknowledge(r) ==
    /\ IsExtract(r, "queued")
    /\ ~Truthy(RedisGet(extractLease, r.chat))
    /\ Len(offered[r.chat]) < MaxMessages
    /\ extractLease' = RedisSetex(extractLease, r.chat, LeaseData(r.url, r.service))
    /\ offered' = [offered EXCEPT ![r.chat] = BotSendMessage(@, "acknowledgement")]
    /\ LET message == send_message(SentMessage(offered[r.chat], "acknowledgement"))
           msg_id == message_id(message)
       IN  IF msg_id = Raised
           THEN Crash(r, <<"lease", "acknowledgement">>)
           ELSE Step(r, "placeholder", Some(msg_id), <<"lease", "acknowledgement">>)
    /\ UNCHANGED <<downloadLease, session, cache, cb, igAwait>>

NextNotify ==
    \/ \E c \in AllChats : UserWrites(c)
    \/ \E c \in AllChats, k \in DownloadKinds \cup {"extract"} : NotifySubmit(c, k)
    \/ \E r \in Live : NotifyUserStart(r)
    \/ \E r \in Live : NotifyBusy(r)
    \/ \E r \in Live : NotifyAcknowledge(r)

SpecNotify == InitNotify /\ [][NextNotify]_vars

\* the placeholders of chat c that are still in the chat
PlaceholdersLeft(c) ==
    {i \in DOMAIN offered[c] :
        offered[c][i].text = "placeholder" /\ ~offered[c][i].deleted}

\* the download jobs of chat c that sent their placeholder and still run
RunningDownloads(c) ==
    BagCardinality(BagOfAll(LAMBDA r : r.pc,
        [r \in {q \in Live : q.chat = c /\ q.kind \in DownloadKinds /\ q.pc # "queued"}
            |-> CopiesIn(r, jobs)]))

\* C31: a download job that ends has removed the placeholder it sent at its
\* start, and only that message: send_message gave it the identifier of the
\* placeholder, so when the job is over the only placeholders left in the
\* chat are those of the jobs still running.
C31_PlaceholderHandle ==
    last.kind \in DownloadKinds
        => /\ last.pc # "crashed"
           /\ Cardinality(PlaceholdersLeft(last.chat)) = RunningDownloads(last.chat)

\* C32: video and image candidates without a width are left out of the
\* buckets and cause no error: parse_videos and parse_images return normally
\* for every candidate list, and no button stands for a candidate whose
\* width is null.
C32_NullWidthExcluded ==
    /\ last.op = "parse_videos" =>
          \A b \in 1..Len(last.result) : \A i \in Offered(last.arg, "video", last.result[b]) :
              last.arg[i].width # None
    /\ last.op = "parse_images" =>
          /\ last.result # Raised
          /\ last.result # None =>
                \A i \in 1..Len(BestImages(last.arg)) : BestImages(last.arg)[i].width # None

\* C33: the rendition selector is pure: when parse_videos, parse_audios,
\* parse_thumbnails or parse_images has returned, every candidate record
\* passed to it is as it was before the call, and so is the media result the
\* buttons were built from.
C33_SelectorPure ==
    last.op \in {"parse_videos", "parse_audios", "parse_images", "keyboard"}
        => cb.tmp = last.arg

\* the orders in which a list of n candidates can come out of the extractor
Perms(n) == {p \in [1..n -> 1..n] : \A i, j \in 1..n : p[i] = p[j] => i = j}
Permuted(s, p) == [i \in 1..Len(s) |-> s[p[i]]]

\* the callback strings of a list of buttons
CallbackData(buttons) == {buttons[i].callback_data : i \in 1..Len(buttons)}

\* C34: the selection does not depend on the order of the candidates: for
\* every candidate list and every permutation of it parse_videos offers the
\* same rendition ids and parse_audios offers the same audio rendition id,
\* ties on the whole ranking key included.
C34_OrderIrrelevant ==
    /\ last.op = "parse_videos" =>
          \A p \in Perms(Len(last.arg)) :
              CallbackData(parse_videos(Permuted(last.arg, p))) = CallbackData(last.result)
    /\ last.op = "parse_audios" =>
          \A p \in Perms(Len(last.arg)) :
              parse_audios(Permuted(last.arg, p)) = last.result

\* the media kind a button belongs to: its callback string up to the colon
ButtonKind(button) == Head(Split(button.callback_data, ":"))

\* the buttons of a kind on a keyboard
ButtonsOfKind(keyboard, kind) ==
    {b \in 1..Len(keyboard) : ButtonKind(keyboard[b]) = kind}

\* C35: an empty candidate collection gives no button and no error:
\* parse_videos returns the empty list, parse_audios and parse_images return
\* no button, and the keyboard built for a media result has no button of a
\* kind whose collection is empty.
C35_EmptyCollections ==
    /\ (last.op = "parse_videos" /\ last.arg = <<>>) => last.result = <<>>
    /\ (last.op \in {"parse_audios", "parse_images"} /\ last.arg = <<>>) => last.result = None
    /\ last.op = "keyboard" =>
          /\ last.result # Raised
          /\ \A kind \in {"video", "audio", "thumbnail", "image"} :
                last.arg[kind \o "s"] = <<>> => ButtonsOfKind(last.result, kind) = {}

C35_Witness ==
    /\ last.op = "keyboard"
    /\ last.arg.is_video
    /\ last.arg.videos # <<>>
    /\ last.arg.audios = <<>>
    /\ last.arg.thumbnails = <<>>
    /\ ButtonsOfKind(last.result, "video") = 1..Len(last.result)

\* ------------------------------------------------------------- two users
\* Everything the program does, for two users who send the same URL, a new
\* URL arriving when the lanes are empty.
NextIsolate ==
    \/ jobs = EmptyBag /\ \E c \in AllChats, u \in SharedUrls : SendUrl(c, u)
    \/ \E r \in Live :
          \/ GmiGetExtract(r)
          \/ GmiBusy(r)
          \/ GmiCreateExtract(r)
          \/ GmiGetMedia(r)
          \/ GmiCacheHit(r)
          \/ HsCreateSession(r)
          \/ HsStoreMedia(r)
          \/ GmiDeleteExtract(r)
          \/ DownloadTask(r)
          \/ DlDeleteDownload(r)
    \/ \E c \in AllChats, k \in {"video", "audio"} : \E id \in Buttons(c, k) : CbGetDownload(c, k, id)
    \/ CbBusy
    \/ CbGetSession
    \/ CbRefreshSession
    \/ CbCreateDownload
    \/ CbSubmit
    \/ \E c \in AllChats : ExpireExtract(c)
    \/ \E c \in AllChats : ExpireDownload(c)

SpecIsolate == Init /\ [][NextIsolate]_vars

\* UserSessionStorage._get_session_key, lines 34-44
get_session_key(chat_id) == "user_session:" \o chat_id

\* the Redis keys under which the program keeps what it knows of a chat
KeysOf(chat_id) ==
    {get_extract_queue_key(chat_id), get_download_queue_key(chat_id),
     get_session_key(chat_id)}

\* what the stores hold for a chat
EntriesOf(c) == <<session[c], extractLease[c], downloadLease[c]>>

\* this step is an operation performed for chat a
StepFor(a) ==
    \/ \E u \in SharedUrls : SendUrl(a, u)
    \/ \E r \in Live :
          /\ r.chat = a
          /\ \/ GmiGetExtract(r) \/ GmiBusy(r) \/ GmiCreateExtract(r) \/ GmiGetMedia(r)
             \/ GmiCacheHit(r) \/ HsCreateSession(r) \/ HsStoreMedia(r)
             \/ GmiDeleteExtract(r) \/ DownloadTask(r) \/ DlDeleteDownload(r)
    \/ \E k \in {"video", "audio"} : \E id \in Buttons(a, k) : CbGetDownload(a, k, id)
    \/ /\ cb.chat = a
       /\ CbBusy \/ CbGetSession \/ CbRefreshSession \/ CbCreateDownload \/ CbSubmit

\* C36: users are isolated: the keys of two chats are different keys; every
\* operation performed for a chat (URL sent, button pressed, job step, lease
\* or session read, write, delete) leaves the session, the extract lease and
\* the download lease of every other chat as they were; and whether a chat
\* is admitted depends on its own lease only.
C36_UsersIsolated ==
    [][/\ \A a \in AllChats : \A b \in AllChats \ {a} :
             /\ KeysOf(a) \cap KeysOf(b) = {}
             /\ StepFor(a) => EntriesOf(b)' = EntriesOf(b)
       /\ \A r \in Live :
             GmiGetExtract(r) =>
                (BagIn(Moved(r, "create", None, <<>>), jobs') <=> extractLease[r.chat] = None)
       /\ \A c \in AllChats, k \in {"video", "audio"} : \A id \in Buttons(c, k) :
             CbGetDownload(c, k, id) =>
                (cb'.pc = "session_get" <=> downloadLease[c] = None)]_vars

C36_Witness ==
    /\ last.kind = "extract"
    /\ last.chat = "c1"
    /\ last.pc = "delivered"
    /\ session["c2"] # None
    /\ extractLease["c2"] # None
    /\ downloadLease["c2"] # None
    /\ extractLease["c1"] = None

\* ------------------------------------------------------ the bot starts up
\* TelegramBot.__init__ registers the message handlers and then the callback
\* handlers; here cb.tmp is the list of handlers registered with
\* dp.callback_query, and offered[c] the callback updates chat c has sent by
\* pressing buttons of keyboards it still holds.

\* the static methods class ServiceCallbackHandler defines
ServiceCallbackHandler == {"handle_video", "handle_image", "handle_audio", "handle_thumbnail"}

\* ServiceCallbackHandler.<name>: the method, or AttributeError
GetAttr(name) == IF name \in ServiceCallbackHandler THEN name ELSE Raised

CallbackKinds == {"video", "image", "audio", "thumbnail"}

\* lines 123-128, the dict literal, in the order it is written
callback_handlers ==
    <<[prefix |-> "video", handler |-> GetAttr("handle_video")],
      [prefix |-> "image", handler |-> GetAttr("handle_image")],
      [prefix |-> "audio", handler |-> GetAttr("handle_auido")],
      [prefix |-> "thumbnail", handler |-> GetAttr("handle_thumbnail")]>>

\* str.startswith
StartsWith(s, prefix) == Len(s) >= Len(prefix) /\ SubSeq(s, 1, Len(prefix)) = prefix

\* the registered handlers whose filter F.data.startswith(prefix) lets data through
Matching(registered, data) ==
    {i \in 1..Len(registered) : StartsWith(data, registered[i].prefix)}

\* the callback strings of the buttons a chat can hold
CallbackSamples == {"video:v1", "audio:a1", "thumbnail:t1", "image"}

InitStart ==
    /\ extractLease = [c \in AllChats |-> None]
    /\ downloadLease = [c \in AllChats |-> None]
    /\ session = [c \in AllChats |-> None]
    /\ cache = [u \in Urls |-> None]
    /\ jobs = EmptyBag
    /\ cb = [Idle EXCEPT !.pc = "setup", !.tmp = <<>>]
    /\ igAwait = {}
    /\ offered = [c \in AllChats |-> {}]
    /\ last = Nothing

\* a user presses a button: Telegram holds the update for the bot
PressButton(c, data) ==
    /\ data \notin offered[c]
    /\ offered' = [offered EXCEPT ![c] = @ \cup {data}]
    /\ UNCHANGED <<stores, jobs, cb, igAwait, last>>

\* __init__ lines 70-72: logging, bot and dispatcher, _register_handlers
RegisterHandlers ==
    /\ cb.pc = "setup"
    /\ cb' = [cb EXCEPT !.pc = "callbacks"]
    /\ UNCHANGED <<stores, jobs, igAwait, offered, last>>

\* __init__ line 73, _register_callback_handlers: the dict is built, then
\* each entry is registered; an exception leaves __init__
RegisterCallbackHandlers ==
    /\ cb.pc = "callbacks"
    /\ IF \E i \in 1..Len(callback_handlers) : callback_handlers[i].handler = Raised
       THEN cb' = [cb EXCEPT !.pc = "raised"]
       ELSE cb' = [cb EXCEPT !.pc = "initialized", !.tmp = callback_handlers]
    /\ UNCHANGED <<stores, jobs, igAwait, offered, last>>

NextStart ==
    \/ \E c \in AllChats, data \in CallbackSamples : PressButton(c, data)
    \/ RegisterHandlers
    \/ RegisterCallbackHandlers

SpecStart == InitStart /\ [][NextStart]_vars

\* C37: each callback kind is routed to the handler of that kind: when the
\* bot's construction is over, a handler is registered for each of the four
\* kinds, and a callback whose data starts with video, audio, image or
\* thumbnail is let through by exactly one registered handler, the one of
\* its kind.
C37_CallbackRouting ==
    cb.pc \in {"initialized", "raised"} =>
        \A kind \in CallbackKinds : \A data \in CallbackSamples :
            StartsWith(data, kind) =>
                /\ Cardinality(Matching(cb.tmp, data)) = 1
                /\ \A i \in Matching(cb.tmp, data) : cb.tmp[i].handler = "handle_" \o kind

\* C38: a rejected extraction attempt does not touch the lease of the job in
\* flight: the job that finds an extract lease returns without calling
\* delete_extract and without writing the lease, so the lease stays as the
\* job that acquired it wrote it.
C38_RejectionLeavesLease ==
    [][\A r \in Live :
          GmiBusy(r) => /\ extractLease' = extractLease
                        /\ ~Has(last', "release")]_vars

WidthsOf(vs, Test(_)) == {vs[i].width : i \in {j \in 1..Len(vs) : Test(vs[j].width)}}

\* the widths of the candidates the buttons stand for
OfferedWidths(vs, buttons) ==
    {vs[i].width : i \in UNION {Offered(vs, "video", buttons[b]) : b \in 1..Len(buttons)}}

\* every button stands for exactly one candidate of the list, and no two
\* buttons for candidates of the same width
ButtonsDistinct(vs, buttons) ==
    /\ \A b \in 1..Len(buttons) : Cardinality(Offered(vs, "video", buttons[b])) = 1
    /\ \A b, c \in 1..Len(buttons) :
          (\E i \in Offered(vs, "video", buttons[b]), j \in Offered(vs, "video", buttons[c]) :
              vs[i].width = vs[j].width) => b = c

\* C40 as stated: parse_videos produces exactly one button per distinct
\* non-null width of the candidate list: as many buttons as distinct non-null
\* widths, no two for the same width, each for a candidate of the list.
C40_OneButtonPerWidth ==
    last.op = "parse_videos" =>
        /\ Len(last.result) = Cardinality(WidthsOf(last.arg, NotNone))
        /\ ButtonsDistinct(last.arg, last.result)

\* C40 amended: parse_videos produces exactly one button per distinct width
\* that is neither null nor 0: as many buttons as such widths, one for each
\* of them, no two for the same width, each for a candidate of the list.
C40_OneButtonPerBucket ==
    last.op = "parse_videos" =>
        /\ Len(last.result) = Cardinality(WidthsOf(last.arg, PixelWidth))
        /\ OfferedWidths(last.arg, last.result) = WidthsOf(last.arg, PixelWidth)
        /\ ButtonsDistinct(last.arg, last.result)

C40_Witness ==
    /\ last.op = "parse_videos"
    /\ Len(last.arg) = 3
    /\ last.arg[1].width = Some(1280)
    /\ last.arg[2].width = Some(0)
    /\ last.arg[3].width = Some(1280)
    /\ Len(last.result) = 1
====
